---- MODULE Spec2Model ----
(***************************************************************************)
(* shelldoc: one file run (performInteractions) driving one background     *)
(* shell through Shell.ExecuteCommand.                                     *)
(*                                                                         *)
(* A line of text is a sequence of tokens.  The token "BM" stands for the  *)
(* whole begin-marker string, "EM" for the whole end-marker string; every  *)
(* other token is one character.                                           *)
(***************************************************************************)
EXTENDS Integers, Sequences, FiniteSets, TLC

\* ------------------------------------------------------------------ bounds
MaxInteractions == 2
MaxOut == 2
MaxStray == 1
MaxExpected == 2
MaxActual == 3
MaxBlock == 3
MaxAttrs == 3
MaxCases == 3
MaxCycles == 2
MaxCycleInteractions == 1

\* ------------------------------------------------------- program constants
returnSuccess == 0
returnFailure == 1
\* faulty variant of returnError: an execution error counts as success
returnErrorAsSuccess == returnSuccess

returnError == 2

beginMarker == <<"BM">>
endMarker == <<"EM">>

\* the exit codes a command of the model can end with ($? of the shell)
ExitCodes == {0, 12}

\* the lines a command of the model can print: ordinary text, the begin
\* marker itself, and a line that starts like the end marker
OutLines == { <<"h">>, beginMarker, endMarker \o <<" ", "x">> }

\* the documented responses an interaction of the model can carry
Responses == { <<>>, <<<<"h">>>> }

\* the --timeout values of the model: 0 (none) and a positive duration
Timeouts == {0, 1}

\* ----------------------------------------------------------- pure helpers
DigitChars == <<"0", "1", "2", "3", "4", "5", "6", "7", "8", "9">>

IsDigit(c) == \E d \in 1..10 : DigitChars[d] = c

DigitValue(c) == (CHOOSE d \in 1..10 : DigitChars[d] = c) - 1

RECURSIVE DecValue(_)
DecValue(s) ==
    IF s = <<>> THEN 0
    ELSE 10 * DecValue(SubSeq(s, 1, Len(s) - 1)) + DigitValue(s[Len(s)])

\* strconv.Atoi: an optional sign, then one or more decimal digits
Atoi(s) ==
    LET signed == s # <<>> /\ s[1] \in {"+", "-"}
        body == IF signed THEN Tail(s) ELSE s
    IN  IF body = <<>> \/ \E i \in 1..Len(body) : ~IsDigit(body[i])
        THEN [ok |-> FALSE, value |-> 0]
        ELSE [ok |-> TRUE,
              value |-> IF signed /\ s[1] = "-" THEN 0 - DecValue(body)
                        ELSE DecValue(body)]

\* the shell's expansion of $? : the decimal digits of a non-negative number
RECURSIVE Itoa(_)
Itoa(n) ==
    IF n < 10 THEN <<DigitChars[n + 1]>>
    ELSE Itoa(n \div 10) \o <<DigitChars[(n % 10) + 1]>>

\* beginRx = "^" + beginMarker + "$"
BeginRxMatch(line) == line = beginMarker

\* endRx = "^" + endMarker + " (.+)$": the submatch, or <<>> when the line
\* does not match
EndRxSubmatch(line) ==
    IF Len(line) >= 3 /\ SubSeq(line, 1, 1) = endMarker /\ line[2] = " "
    THEN SubSeq(line, 3, Len(line))
    ELSE <<>>


\* ------------------------------------------------------------------ state
VARIABLES
    interactions,  \* visitor.Interactions: [Response, ResultCode] per interaction
    timeout,       \* runCtx.Timeout
    failureStops,  \* runCtx.FailureStops
    dryRun,        \* runCtx.DryRun
    returnCode,    \* runCtx.returnCode
    suite,         \* suite.TestCases: [Error, Failure] per registered test case
    ctxDone,       \* ctx.Done() is closed
    pc,            \* position of the goroutine that runs performInteractions
    index,         \* 1-based position of the loop over visitor.Interactions
    ret,           \* what the last call of ExecuteCommand returned
    timer,         \* the timer of time.After: "off", or "armed" while it runs
    stdin,         \* everything written to shell.stdin, in order
    shellPos,      \* number of stdin lines the shell has finished
    shellAlive,    \* the shell process runs
    status,        \* $? of the shell: "zero" after an echo, else "any"
    nout,          \* number of lines the running command has printed
    stdout,        \* lines in the stdout pipe that nobody has read yet
    scan,          \* per call: the scanning goroutine
    resultCh,      \* per call: the buffered channel resultCh
    framed,        \* history: lines printed between the last call's markers
    strays,        \* history: number of lines background jobs have printed
    collided,      \* history: some command printed a line that looks like a marker
    hist,          \* history of the setup and of the last call: what happened,
                   \* and what first
    operand,       \* the arguments of a function of package tokenizer that is
                   \* evaluated on its own
    result,        \* <<v>> once that function has returned v, <<>> before
    counter        \* the number of start/exit cycles that came before this one

vars ==
    << interactions, timeout, failureStops, dryRun, returnCode, suite, ctxDone, pc,
       index, ret, timer, stdin, shellPos, shellAlive, status, nout, stdout,
       scan, resultCh, framed, strays, collided, hist, operand, result,
       counter >>

Calls == 1..MaxInteractions

NoResult == [output |-> <<>>, rc |-> 0, err |-> "none"]

\* faulty variant of TimeoutResult: the timeout reported as a cancellation
TimeoutResultWrong == [output |-> <<>>, rc |-> -1, err |-> "ErrCancelled"]

\* shell.go:130
TimeoutResult == [output |-> <<>>, rc |-> -1, err |-> "ErrTimeout"]

\* shell.go:132 and shell.go:141
CancelledResult == [output |-> <<>>, rc |-> -1, err |-> "ErrCancelled"]

\* faulty variant of ExitCodeError: the lines collected so far returned with
\* the error
ExitCodeErrorWithOutput(output) ==
    [output |-> output, rc |-> -1, err |-> "ErrExitCode"]

\* faulty variant of ExitCodeError: the unparsable exit code taken for 0
ExitCodeErrorLenient(output) == [output |-> output, rc |-> 0, err |-> "nil"]

\* shell.go:113
ExitCodeError(output) == [output |-> <<>>, rc |-> -1, err |-> "ErrExitCode"]

\* faulty variant of ScanResult: the exit code dropped
ScanResultNoCode(output, rc) == [output |-> output, rc |-> 0, err |-> "nil"]

\* shell.go:121
ScanResult(output, rc) == [output |-> output, rc |-> rc, err |-> "nil"]

\* a goroutine: st is "none" (not started), "run" or "done"; end and endArg
\* say how its loop was left
IdleScan ==
    [st |-> "none", beginFound |-> FALSE, output |-> <<>>, rc |-> 0,
     end |-> "none", endArg |-> <<>>]

\* faulty variant of DoneScan: the goroutine goes on reading after its send
DoneScanStillReading == [IdleScan EXCEPT !.st = "run", !.beginFound = TRUE]

DoneScan == [IdleScan EXCEPT !.st = "done"]

NoHist ==
    [k |-> 0, cancelledAtCall |-> FALSE, cancelFirst |-> FALSE,
     scanFirst |-> FALSE, timerFirst |-> FALSE, via |-> "none",
     end |-> "none", endArg |-> <<>>, setup |-> <<>>, exit |-> "none"]

Init ==
    /\ interactions \in
         UNION { [1..n -> [Response : Responses, ResultCode : {"NewInteraction"}]]
                 : n \in 0..MaxInteractions }
    /\ timeout \in Timeouts
    /\ failureStops \in BOOLEAN
    /\ dryRun \in BOOLEAN
    /\ returnCode = returnSuccess
    /\ suite = <<>>
    /\ ctxDone = FALSE
    /\ pc = "detect"
    /\ index = 1
    /\ ret = NoResult
    /\ timer = "off"
    /\ stdin = <<>>
    /\ shellPos = 0
    /\ shellAlive = FALSE
    /\ status = "zero"
    /\ nout = 0
    /\ stdout = <<>>
    /\ scan = [k \in Calls |-> IdleScan]
    /\ resultCh = [k \in Calls |-> <<>>]
    /\ framed = <<>>
    /\ strays = 0
    /\ collided = FALSE
    /\ hist = NoHist
    /\ operand = <<>>
    /\ result = <<>>
    /\ counter = 0

\* the variables of the goroutine that runs performInteractions
runVars == << interactions, returnCode, suite, pc, index, ret, timer >>

\* what a file run never assigns: the configuration, and the variables of
\* the functions evaluated on their own
cfgVars == << timeout, failureStops, dryRun, operand, result, counter >>

shellVars == << shellPos, shellAlive, status, nout, stdout >>

histVars == << framed, strays, collided >>

\* ------------------------------------------------------- the shell process
\* What the shell does with the lines ExecuteCommand and Exit write to its
\* standard input.  A command is opaque: it prints any lines, then ends with
\* any exit code, or never ends, or ends the shell.

NextInstr == stdin[shellPos + 1]

ShellReady == shellAlive /\ shellPos < Len(stdin)

LooksLikeMarker(line) == BeginRxMatch(line) \/ Len(EndRxSubmatch(line)) > 0

\* echo "<beginMarker>"
ShellEchoBegin ==
    /\ ShellReady
    /\ NextInstr.op = "begin"
    /\ stdout' = Append(stdout, beginMarker)
    /\ shellPos' = shellPos + 1
    /\ nout' = 0
    /\ status' = "zero"
    /\ framed' = <<>>
    /\ UNCHANGED << runVars, cfgVars, ctxDone, stdin, shellAlive, scan,
                    resultCh, strays, collided, hist >>

\* the command prints a line
ShellCmdPrint(line) ==
    /\ ShellReady
    /\ NextInstr.op = "cmd"
    /\ nout < MaxOut
    /\ stdout' = Append(stdout, line)
    /\ nout' = nout + 1
    /\ framed' = IF NextInstr.k = hist.k /\ hist.via = "none"
                  THEN Append(framed, line)
                  ELSE framed
    /\ collided' = (collided \/ LooksLikeMarker(line))
    /\ UNCHANGED << runVars, cfgVars, ctxDone, stdin, shellPos,
                    shellAlive, status, scan, resultCh, strays, hist >>

\* the command ends with exit code rc: ; echo "<endMarker> $?"
ShellCmdEnd(rc) ==
    /\ ShellReady
    /\ NextInstr.op = "cmd"
    /\ stdout' = Append(stdout, endMarker \o <<" ">> \o Itoa(rc))
    /\ shellPos' = shellPos + 1
    /\ nout' = 0
    /\ status' = "zero"
    /\ UNCHANGED << runVars, cfgVars, ctxDone, stdin, shellAlive, scan,
                    resultCh, histVars, hist >>

\* the command ends, but its text has taken the rest of the line with it (a
\* trailing comment as in "echo hi # note", a trailing "&", an empty command
\* before the ";"): the shell prints no end marker and reads its next line
ShellCmdNoEnd ==
    /\ ShellReady
    /\ NextInstr.op = "cmd"
    /\ shellPos' = shellPos + 1
    /\ nout' = 0
    /\ status' = "any"
    /\ UNCHANGED << runVars, cfgVars, ctxDone, stdin, shellAlive, stdout,
                    scan, resultCh, histVars, hist >>

\* the command ends the shell (exit, exec, kill $$): no end marker is printed
ShellCmdExit ==
    /\ ShellReady
    /\ NextInstr.op = "cmd"
    /\ shellAlive' = FALSE
    /\ UNCHANGED << runVars, cfgVars, ctxDone, stdin, shellPos, status, nout,
                    stdout, scan, resultCh, histVars, hist >>

\* the line "exit" written by Shell.Exit
ShellExit ==
    /\ ShellReady
    /\ NextInstr.op = "exit"
    /\ shellAlive' = FALSE
    /\ shellPos' = shellPos + 1
    /\ UNCHANGED << runVars, cfgVars, ctxDone, stdin, status, nout, stdout,
                    scan, resultCh, histVars, hist >>

\* a background job that an earlier command left behind prints a line while
\* no command is between its markers
ShellStrayPrint ==
    /\ shellAlive
    /\ strays < MaxStray
    /\ shellPos >= 2
    /\ IF shellPos = Len(stdin) THEN TRUE ELSE NextInstr.op # "cmd"
    /\ stdout' = Append(stdout, <<"w">>)
    /\ strays' = strays + 1
    /\ UNCHANGED << runVars, cfgVars, ctxDone, stdin, shellPos,
                    shellAlive, status, nout, scan, resultCh, framed,
                    collided, hist >>

\* ------------------------------------------------------ Interaction.Execute
Ellipsis == <<".", ".", ".">>

\* faulty variant of evaluateResponse: "..." stands for exactly one line
RECURSIVE evaluateResponsePerLine(_, _)
evaluateResponsePerLine(expected, actual) ==
    IF expected = <<>> THEN actual = <<>>
    ELSE IF actual = <<>> THEN FALSE
    ELSE /\ Head(expected) = Ellipsis \/ Head(expected) = Head(actual)
         /\ evaluateResponsePerLine(Tail(expected), Tail(actual))

\* faulty variant of evaluateResponse: lines after the expected ones accepted
RECURSIVE evaluateResponsePrefix(_, _)
evaluateResponsePrefix(expected, actual) ==
    IF expected = <<>> THEN TRUE
    ELSE IF Head(expected) = Ellipsis THEN TRUE
    ELSE IF actual = <<>> THEN FALSE
    ELSE /\ Head(expected) = Head(actual)
         /\ evaluateResponsePrefix(Tail(expected), Tail(actual))

\* Interaction.evaluateResponse: element-wise comparison; an expected line
\* "..." accepts whatever follows
RECURSIVE evaluateResponse(_, _)
evaluateResponse(expected, actual) ==
    IF expected = <<>> THEN actual = <<>>
    ELSE IF Head(expected) = Ellipsis THEN TRUE
    ELSE IF actual = <<>> THEN FALSE
    ELSE /\ Head(expected) = Head(actual)
         /\ evaluateResponse(Tail(expected), Tail(actual))

\* faulty variant of Execute: the output compared with an empty response too
ExecuteAlwaysCompares(interaction, r) ==
    IF r.err # "nil" THEN "ResultExecutionError"
    ELSE IF evaluateResponse(interaction.Response, r.output) THEN "ResultMatch"
    ELSE "ResultMismatch"

\* Interaction.Execute: the result code after ExecuteCommand returned r
Execute(interaction, r) ==
    IF r.err # "nil" THEN "ResultExecutionError"
    ELSE IF interaction.Response = <<>> THEN "ResultMatch"
    ELSE IF evaluateResponse(interaction.Response, r.output) THEN "ResultMatch"
    ELSE "ResultMismatch"

\* Interaction.HasFailure
HasFailure(code) == code \in {"ResultMismatch", "ResultError"}

\* Context.RegisterReturnCode: the worst code registered so far
RegisterReturnCode(current, code) == IF code > current THEN code ELSE current

\* ----------------------------------- performInteractions: after the call
\* faulty variant of Stops: no break after a timeout
StopsNotOnTimeout(err, failed) ==
    \/ err = "ErrCancelled"
    \/ failed /\ failureStops

\* faulty variant of Stops: no break after a failure
StopsIgnoresFailure(err, failed) ==
    \/ err = "ErrCancelled"
    \/ err = "ErrTimeout"

\* the three breaks at the end of the loop body
Stops(err, failed) ==
    \/ err = "ErrCancelled"
    \/ err = "ErrTimeout"
    \/ failed /\ failureStops

\* faulty variant of NextIndex: the loop stays at its interaction
NextIndexStuck(i) == i

\* for index, interaction := range visitor.Interactions: the next position
NextIndex(i) == i + 1

\* ExecuteCommand returns r to Interaction.Execute, which records the result
\* code; performInteractions registers the test case and the return code and
\* goes on with the loop or leaves it.  Nothing of this depends on another
\* goroutine or on the shell, so it is one step with the return.
Returns(r) ==
    LET code == Execute(interactions[index], r)
        failed == HasFailure(code)
        rc1 == IF r.err # "nil"
               THEN RegisterReturnCode(returnCode, returnError)
               ELSE returnCode
        rc2 == IF failed THEN RegisterReturnCode(rc1, returnFailure) ELSE rc1
    IN  /\ ret' = r
        /\ timer' = "off"
        /\ interactions' = [interactions EXCEPT ![index].ResultCode = code]
        /\ returnCode' = rc2
        /\ suite' = Append(suite, [Error |-> r.err, Failure |-> failed])
        /\ IF Stops(r.err, failed)
           THEN /\ pc' = "exit"
                /\ UNCHANGED index
           ELSE /\ pc' = "loop"
                /\ index' = NextIndex(index)

\* ------------------------------------------- ExecuteCommand: the goroutine
\* faulty variant of ScanLine: the lines before the begin marker are kept
ScanLineKeepsLeading(g, line) ==
    IF BeginRxMatch(line) THEN [g EXCEPT !.beginFound = TRUE]
    ELSE LET match == EndRxSubmatch(line)
         IN  IF g.beginFound /\ Len(match) > 0
             THEN IF Atoi(match).ok
                  THEN [g EXCEPT !.st = "done", !.end = "marker",
                                 !.endArg = match, !.rc = Atoi(match).value]
                  ELSE [g EXCEPT !.st = "done", !.end = "atoi",
                                 !.endArg = match]
             ELSE [g EXCEPT !.output = Append(@, line)]

\* faulty variant of ScanLine: only the first line equal to the begin marker
\* is skipped
ScanLineKeepsBegin(g, line) ==
    IF BeginRxMatch(line) /\ ~g.beginFound THEN [g EXCEPT !.beginFound = TRUE]
    ELSE IF ~g.beginFound THEN g
    ELSE LET match == EndRxSubmatch(line)
         IN  IF Len(match) > 0
             THEN IF Atoi(match).ok
                  THEN [g EXCEPT !.st = "done", !.end = "marker",
                                 !.endArg = match, !.rc = Atoi(match).value]
                  ELSE [g EXCEPT !.st = "done", !.end = "atoi",
                                 !.endArg = match]
             ELSE [g EXCEPT !.output = Append(@, line)]

\* One pass of the loop "for scanner.Scan()" over the line just read
\* (shell.go:101-119).  g.st = "done" means the loop was left by break or
\* return; g.end says how.
ScanLine(g, line) ==
    IF BeginRxMatch(line) THEN [g EXCEPT !.beginFound = TRUE]
    ELSE IF ~g.beginFound THEN g
    ELSE LET match == EndRxSubmatch(line)
         IN  IF Len(match) > 0
             THEN IF Atoi(match).ok
                  THEN [g EXCEPT !.st = "done", !.end = "marker",
                                 !.endArg = match, !.rc = Atoi(match).value]
                  ELSE [g EXCEPT !.st = "done", !.end = "atoi",
                                 !.endArg = match]
             ELSE [g EXCEPT !.output = Append(@, line)]

\* scanner.Scan() returned false: the stream ended (shell.go:100, 121)
ScanEOF(g) == [g EXCEPT !.st = "done", !.end = "eof"]

\* the value the goroutine sends on resultCh (shell.go:113 and shell.go:121)
SentResult(g) ==
    IF g.end = "atoi" THEN ExitCodeError(g.output)
    ELSE ScanResult(g.output, g.rc)

\* the caller of call k waits in its select
Waiting(k) == pc = "blocked" /\ index = k

\* the call k has not returned yet
InFlight(k) == pc \in {"select", "blocked"} /\ index = k

\* resultCh <- r: resultCh has room for one value, so the send never blocks;
\* a caller that waits in its select takes the value at once.  The goroutine
\* ends here.
Send(k, g) ==
    /\ scan' = [scan EXCEPT ![k] = DoneScan]
    /\ hist' = IF InFlight(k)
               THEN [hist EXCEPT
                       !.scanFirst = ~ctxDone,
                       !.end = g.end,
                       !.endArg = g.endArg,
                       !.via = IF Waiting(k) THEN "result" ELSE @]
               ELSE hist
    /\ IF Waiting(k)
       THEN /\ Returns(SentResult(g))
            /\ UNCHANGED resultCh
       ELSE /\ resultCh' = [resultCh EXCEPT ![k] = <<SentResult(g)>>]
            /\ UNCHANGED runVars

\* the suffixes of a sequence
Suffixes(s) == { SubSeq(s, n + 1, Len(s)) : n \in 0..Len(s) }

\* scanner.Scan() returns the next line of the pipe.  bufio.Scanner reads
\* ahead: when the goroutine leaves the loop, the lines its scanner has
\* already taken from the pipe are lost with it, however many they are.
ScanStep(k) ==
    /\ scan[k].st = "run"
    /\ stdout # <<>>
    /\ LET g == ScanLine(scan[k], Head(stdout))
       IN  IF g.st = "done"
           THEN /\ stdout' \in Suffixes(Tail(stdout))
                /\ Send(k, g)
           ELSE /\ stdout' = Tail(stdout)
                /\ scan' = [scan EXCEPT ![k] = g]
                /\ UNCHANGED << runVars, resultCh, hist >>
    /\ UNCHANGED << cfgVars, ctxDone, stdin, shellPos, shellAlive, status,
                    nout, histVars >>

\* scanner.Scan() returns false: the shell is gone and the pipe is empty
ScanEnd(k) ==
    /\ scan[k].st = "run"
    /\ stdout = <<>> /\ ~shellAlive
    /\ Send(k, ScanEOF(scan[k]))
    /\ UNCHANGED << cfgVars, ctxDone, stdin, shellVars, histVars >>

\* ---------------------------------------------- ExecuteCommand: the caller
\* faulty variant of ExecuteCommand: nothing is written when ctx is done
\* already
ExecuteCommandChecksCtxFirst ==
    /\ pc = "call"
    /\ stdin' = IF ctxDone THEN stdin
                ELSE stdin \o << [op |-> "begin", k |-> index],
                                 [op |-> "cmd", k |-> index] >>
    /\ scan' = [scan EXCEPT ![index] = [IdleScan EXCEPT !.st = "run"]]
    /\ hist' = [NoHist EXCEPT !.k = index, !.cancelledAtCall = ctxDone]
    /\ pc' = "select"
    /\ UNCHANGED << interactions, returnCode, suite, index, ret, timer,
                    cfgVars, ctxDone, resultCh, shellVars, histVars >>

\* faulty variant of ExecuteCommand: the command written before the echo of
\* the begin marker
ExecuteCommandCmdFirst ==
    /\ pc = "call"
    /\ stdin' = stdin \o << [op |-> "cmd", k |-> index],
                            [op |-> "begin", k |-> index] >>
    /\ scan' = [scan EXCEPT ![index] = [IdleScan EXCEPT !.st = "run"]]
    /\ hist' = [NoHist EXCEPT !.k = index, !.cancelledAtCall = ctxDone]
    /\ pc' = "select"
    /\ UNCHANGED << interactions, returnCode, suite, index, ret, timer,
                    cfgVars, ctxDone, resultCh, shellVars, histVars >>

\* shell.go:84-95: write the framed command, make resultCh, start the
\* goroutine
ExecuteCommand ==
    /\ pc = "call"
    /\ stdin' = stdin \o << [op |-> "begin", k |-> index],
                            [op |-> "cmd", k |-> index] >>
    /\ scan' = [scan EXCEPT ![index] = [IdleScan EXCEPT !.st = "run"]]
    /\ hist' = [NoHist EXCEPT !.k = index, !.cancelledAtCall = ctxDone]
    /\ pc' = "select"
    /\ UNCHANGED << interactions, returnCode, suite, index, ret, timer,
                    cfgVars, ctxDone, resultCh, shellVars, histVars >>

\* faulty variant of TimerArmed: a timer for every timeout value
TimerArmedAlways(t) == t >= 0

\* shell.go:125: only a positive timeout puts a timer into the select
TimerArmed(t) == t > 0

\* the cases of the select that can proceed when it is entered
\* (shell.go:126-133 and shell.go:137-142); the timer has just been started
ReadyCases(k) ==
    (IF resultCh[k] # <<>> THEN {"result"} ELSE {})
        \cup (IF ctxDone THEN {"cancel"} ELSE {})

\* entering the select: one of the cases that can proceed is taken, any of
\* them; with none, the caller waits
Select ==
    /\ pc = "select"
    /\ IF ReadyCases(index) = {}
       THEN /\ pc' = "blocked"
            /\ timer' = IF TimerArmed(timeout) THEN "armed" ELSE "off"
            /\ UNCHANGED << interactions, returnCode, suite, index, ret,
                            resultCh, hist >>
       ELSE \E c \in ReadyCases(index) :
            /\ Returns(IF c = "result" THEN Head(resultCh[index])
                       ELSE CancelledResult)
            /\ resultCh' = IF c = "result"
                           THEN [resultCh EXCEPT ![index] = <<>>]
                           ELSE resultCh
            /\ hist' = [hist EXCEPT !.via = c]
    /\ UNCHANGED << cfgVars, ctxDone, stdin, scan, shellVars, histVars >>

\* case <-time.After(timeout) (shell.go:129-130)
TimerFires ==
    /\ pc = "blocked"
    /\ timer = "armed"
    /\ Returns(TimeoutResult)
    /\ hist' = [hist EXCEPT !.timerFirst = TRUE, !.via = "timeout"]
    /\ UNCHANGED << cfgVars, ctxDone, stdin, scan, resultCh, shellVars,
                    histVars >>

\* SIGINT or SIGTERM: cancel() closes ctx.Done() (run.go:45-49); a caller
\* that waits in its select takes case <-ctx.Done() (shell.go:131, 140).
\* Nothing reads ctx once the loop of performInteractions is left.
Cancel ==
    /\ ~ctxDone
    /\ pc \in {"loop", "call", "select", "blocked"}
    /\ ctxDone' = TRUE
    /\ IF pc = "blocked"
       THEN Returns(CancelledResult)
       ELSE UNCHANGED runVars
    /\ hist' = IF pc \in {"select", "blocked"}
               THEN [hist EXCEPT
                       !.cancelFirst = scan[index].st = "run",
                       !.via = IF pc = "blocked" THEN "cancel" ELSE @]
               ELSE hist
    /\ UNCHANGED << cfgVars, stdin, scan, resultCh, shellVars, histVars >>

\* ----------------------------------------- performInteractions: the setup
\* faulty variant of DetectShellOk: a path that does not exist is accepted
DetectShellOkNoStat(selected, env, exists) == selected \/ env

\* shell.DetectShell: a shell was named or $SHELL is set, and os.Stat finds
\* the path
DetectShellOk(selected, env, exists) == (selected \/ env) /\ exists

\* if runCtx.DryRun { ... return suite, nil }: the commands are printed, and
\* the file run ends before a shell is looked for
DryRun ==
    /\ pc = "detect"
    /\ dryRun
    /\ pc' = "done"
    /\ UNCHANGED << interactions, returnCode, suite, index, ret, timer,
                    cfgVars, ctxDone, stdin, scan, resultCh, shellVars,
                    histVars, hist >>

\* faulty variant of DetectShell: reached in dry-run mode too
DetectShellInDryRun ==
    /\ pc = "detect"
    /\ \E selected \in BOOLEAN, env \in BOOLEAN, exists \in BOOLEAN :
         /\ hist' = [hist EXCEPT !.setup = << selected, env, exists >>]
         /\ pc' = IF DetectShellOk(selected, env, exists)
                  THEN "start"
                  ELSE "failed"
    /\ UNCHANGED << interactions, returnCode, suite, index, ret, timer,
                    cfgVars, ctxDone, stdin, scan, resultCh, shellVars,
                    histVars >>

\* shellpath, err := shell.DetectShell(runCtx.ShellName); an error ends the
\* file run (return nil, err)
DetectShell ==
    /\ pc = "detect"
    /\ ~dryRun
    /\ \E selected \in BOOLEAN, env \in BOOLEAN, exists \in BOOLEAN :
         /\ hist' = [hist EXCEPT !.setup = << selected, env, exists >>]
         /\ pc' = IF DetectShellOk(selected, env, exists)
                  THEN "start"
                  ELSE "failed"
    /\ UNCHANGED << interactions, returnCode, suite, index, ret, timer,
                    cfgVars, ctxDone, stdin, scan, resultCh, shellVars,
                    histVars >>

\* currentShell, err := shell.StartShell(shellpath): the pipes are made and
\* cmd.Start() runs the shell, or an error ends the file run
StartShell ==
    /\ pc = "start"
    /\ \E started \in BOOLEAN :
         /\ hist' = [hist EXCEPT !.setup = Append(@, started)]
         /\ shellAlive' = started
         /\ pc' = IF started THEN "loop" ELSE "failed"
    /\ UNCHANGED << interactions, returnCode, suite, index, ret, timer,
                    cfgVars, ctxDone, stdin, shellPos, status, nout, stdout,
                    scan, resultCh, histVars >>

\* ------------------------------------------ performInteractions: the loop
\* faulty variant of LoopHead: ctx is not looked at
LoopHeadNoCheck ==
    /\ pc = "loop"
    /\ pc' = IF index > Len(interactions) THEN "exit" ELSE "call"
    /\ ret' = NoResult
    /\ hist' = NoHist
    /\ framed' = <<>>
    /\ UNCHANGED << interactions, returnCode, suite, index, cfgVars, ctxDone,
                    timer, stdin, scan, resultCh, shellVars, strays,
                    collided >>

\* the head of the loop: the range is exhausted, or ctx.Done() is closed
\* (return suite), or the next interaction is started
LoopHead ==
    /\ pc = "loop"
    /\ pc' = IF index > Len(interactions) \/ ctxDone THEN "exit" ELSE "call"
    /\ ret' = NoResult
    /\ hist' = NoHist
    /\ framed' = <<>>
    /\ UNCHANGED << interactions, returnCode, suite, index, cfgVars, ctxDone,
                    timer, stdin, scan, resultCh, shellVars, strays,
                    collided >>

\* defer currentShell.Exit(): io.WriteString(shell.stdin, "exit\n") ...
Exit ==
    /\ pc = "exit"
    /\ stdin' = Append(stdin, [op |-> "exit", k |-> 0])
    /\ pc' = "wait"
    /\ ret' = NoResult
    /\ hist' = NoHist
    /\ framed' = <<>>
    /\ UNCHANGED << interactions, returnCode, suite, index, cfgVars, ctxDone,
                    timer, scan, resultCh, shellVars, strays, collided >>

\* faulty variant of WaitErrors: an error whatever the exit status
WaitErrorsAlways == {"ExitError"}

\* what cmd.Wait() can return: nil when the shell has run the exit line with
\* $? = 0; nil or an *exec.ExitError when $? is not known to be 0, or when a
\* command has ended the process before the exit line was read
WaitErrors ==
    IF shellPos = Len(stdin) /\ status = "zero"
    THEN {"nil"}
    ELSE {"nil", "ExitError"}

\* ... return shell.cmd.Wait(): returns once the process has ended
Wait ==
    /\ pc = "wait"
    /\ ~shellAlive
    /\ pc' = "done"
    /\ \E e \in WaitErrors : hist' = [hist EXCEPT !.exit = e]
    /\ UNCHANGED << interactions, returnCode, suite, index, ret, cfgVars,
                    ctxDone, timer, stdin, scan, resultCh, shellVars,
                    histVars >>

\* ---------------------------------------------------------- specification
Next ==
    \/ DryRun
    \/ DetectShell
    \/ StartShell
    \/ LoopHead
    \/ ExecuteCommand
    \/ Select
    \/ TimerFires
    \/ Cancel
    \/ Exit
    \/ Wait
    \/ \E k \in Calls : ScanStep(k)
    \/ \E k \in Calls : ScanEnd(k)
    \/ ShellEchoBegin
    \/ \E line \in OutLines : ShellCmdPrint(line)
    \/ \E rc \in ExitCodes : ShellCmdEnd(rc)
    \/ ShellCmdNoEnd
    \/ ShellCmdExit
    \/ ShellExit
    \/ ShellStrayPrint

Spec == Init /\ [][Next]_vars

\* What the scheduling guarantees: a goroutine that can run does run, a
\* timer that was started fires, a goroutine reading the pipe gets the line
\* that is there, and a shell that is not busy reads its next line.  Nothing
\* obliges a command to end or to print, a signal to come, or a background
\* job to print.
Fairness ==
    /\ WF_vars(DryRun)
    /\ WF_vars(DetectShell)
    /\ WF_vars(StartShell)
    /\ WF_vars(LoopHead)
    /\ WF_vars(ExecuteCommand)
    /\ WF_vars(Select)
    /\ WF_vars(TimerFires)
    /\ WF_vars(Exit)
    /\ WF_vars(Wait)
    /\ WF_vars(ShellEchoBegin)
    /\ WF_vars(ShellExit)
    /\ \A k \in Calls : WF_vars(ScanStep(k)) /\ WF_vars(ScanEnd(k))

FairSpec == Spec /\ Fairness

\* ---------------------------------------------- start/exit cycles in a row
\* One file run after the other, each with a shell of its own, as
\* TestShellLifeCycleRepeated starts and exits one shell after the other.

\* the next cycle: Exit has returned, and what follows starts from scratch.
\* The goroutines the cycle before left behind have seen the end of their
\* pipe; ctx and the Context of the run are the same as before.
Restart ==
    /\ pc = "done"
    /\ counter < MaxCycles
    /\ counter' = counter + 1
    /\ pc' = "detect"
    /\ interactions' = [i \in DOMAIN interactions |->
                           [interactions[i] EXCEPT !.ResultCode = "NewInteraction"]]
    /\ suite' = <<>>
    /\ index' = 1
    /\ ret' = NoResult
    /\ timer' = "off"
    /\ stdin' = <<>>
    /\ shellPos' = 0
    /\ shellAlive' = FALSE
    /\ status' = "zero"
    /\ nout' = 0
    /\ stdout' = <<>>
    /\ scan' = [k \in Calls |-> IdleScan]
    /\ resultCh' = [k \in Calls |-> <<>>]
    /\ framed' = <<>>
    /\ strays' = 0
    /\ collided' = FALSE
    /\ hist' = NoHist
    /\ UNCHANGED << timeout, failureStops, dryRun, returnCode, ctxDone,
                    operand, result >>

\* runs of at most MaxCycleInteractions interactions; FailureStops makes no
\* difference for them when there is only one
CycleInit ==
    /\ Init
    /\ Len(interactions) <= MaxCycleInteractions
    /\ ~failureStops

CycleNext ==
    \/ Next
    \/ Restart

CycleSpec == CycleInit /\ [][CycleNext]_vars

\* as FairSpec; and the caller goes on to its next cycle
CycleFairSpec ==
    /\ CycleSpec
    /\ Fairness
    /\ WF_vars(Restart)

\* a single file run of at most MaxCycleInteractions interactions, under the
\* scheduling of FairSpec
ShortFairSpec == CycleInit /\ [][Next]_vars /\ Fairness

\* -------------------------------- functions of package tokenizer on their own
\* Each of the specifications below evaluates one function once: its Init
\* draws the arguments, its action stores what the function returns.  No file
\* run takes place in them.

\* no file run: nothing extracted, no shell, nothing written
NoRun ==
    /\ interactions = <<>>
    /\ timeout = 0
    /\ failureStops = FALSE
    /\ dryRun = FALSE
    /\ returnCode = returnSuccess
    /\ suite = <<>>
    /\ ctxDone = FALSE
    /\ pc = "none"
    /\ index = 1
    /\ ret = NoResult
    /\ timer = "off"
    /\ stdin = <<>>
    /\ shellPos = 0
    /\ shellAlive = FALSE
    /\ status = "zero"
    /\ nout = 0
    /\ stdout = <<>>
    /\ scan = [k \in Calls |-> IdleScan]
    /\ resultCh = [k \in Calls |-> <<>>]
    /\ framed = <<>>
    /\ strays = 0
    /\ collided = FALSE
    /\ hist = NoHist
    /\ counter = 0

\* everything but result
allButResult ==
    << interactions, timeout, failureStops, dryRun, returnCode, suite, ctxDone, pc,
       index, ret, timer, stdin, shellPos, shellAlive, status, nout, stdout,
       scan, resultCh, framed, strays, collided, hist, operand, counter >>

\* the sequences over S of at most n elements
SeqsUpTo(S, n) == UNION { [1..k -> S] : k \in 0..n }

\* the lines of the matcher's arguments: two ordinary lines and the ellipsis
MatchLines == { <<"X">>, <<"Q">>, Ellipsis }

MatchInit ==
    /\ NoRun
    /\ operand \in [expected : SeqsUpTo(MatchLines, MaxExpected),
                     actual : SeqsUpTo(MatchLines, MaxActual)]
    /\ result = <<>>

\* interaction.evaluateResponse(actual) with interaction.Response = expected
EvaluateResponse ==
    /\ result = <<>>
    /\ result' = << evaluateResponse(operand.expected, operand.actual) >>
    /\ UNCHANGED allButResult

MatchNext == EvaluateResponse

MatchSpec == MatchInit /\ [][MatchNext]_vars

\* ---- the interaction visitor on one code block
\* A line of a code block is a sequence of one-character tokens.

\* faulty variant of IsPrompt: "> " is not taken for a prompt
IsPromptDollarOnly(line) ==
    /\ Len(line) >= 2
    /\ line[1] = "$"
    /\ line[2] = " "

\* the line starts with a prompt marker, "$ " or "> "
IsPrompt(line) ==
    /\ Len(line) >= 2
    /\ line[1] \in {"$", ">"}
    /\ line[2] = " "

\* strings.TrimSpace on a line of the model: its only white space is " "
RECURSIVE TrimLeft(_)
TrimLeft(s) ==
    IF s # <<>> /\ Head(s) = " " THEN TrimLeft(Tail(s)) ELSE s

RECURSIVE TrimRight(_)
TrimRight(s) ==
    IF s # <<>> /\ s[Len(s)] = " "
    THEN TrimRight(SubSeq(s, 1, Len(s) - 1))
    ELSE s

TrimSpace(s) == TrimRight(TrimLeft(s))

\* the command of a prompt line: the trimmed text after the prompt
Command(line) == TrimSpace(SubSeq(line, 3, Len(line)))

\* faulty variant of TokenizeLines: a response line without a command before
\* it starts an interaction with an empty command
RECURSIVE TokenizeLinesKeepsOrphans(_, _)
TokenizeLinesKeepsOrphans(lines, acc) ==
    IF lines = <<>> THEN acc
    ELSE IF IsPrompt(Head(lines))
    THEN TokenizeLinesKeepsOrphans(Tail(lines),
             Append(acc, [Cmd |-> Command(Head(lines)), Response |-> <<>>,
                          ResultCode |-> "NewInteraction"]))
    ELSE IF acc = <<>>
    THEN TokenizeLinesKeepsOrphans(Tail(lines),
             << [Cmd |-> <<>>, Response |-> << Head(lines) >>,
                 ResultCode |-> "NewInteraction"] >>)
    ELSE TokenizeLinesKeepsOrphans(Tail(lines),
             [acc EXCEPT ![Len(acc)].Response = Append(@, Head(lines))])

\* the visitor on the lines of one code block, acc being the interactions
\* found so far: a prompt line starts an interaction, any other line is a
\* response line of the interaction before it, or dropped if there is none
RECURSIVE TokenizeLines(_, _)
TokenizeLines(lines, acc) ==
    IF lines = <<>> THEN acc
    ELSE IF IsPrompt(Head(lines))
    THEN TokenizeLines(Tail(lines),
             Append(acc, [Cmd |-> Command(Head(lines)), Response |-> <<>>,
                          ResultCode |-> "NewInteraction"]))
    ELSE IF acc = <<>>
    THEN TokenizeLines(Tail(lines), acc)
    ELSE TokenizeLines(Tail(lines),
             [acc EXCEPT ![Len(acc)].Response = Append(@, Head(lines))])

\* the lines of the model's code blocks: two prompt lines (one with spaces
\* around its command), ordinary text, a "$" without a space after it, the
\* ellipsis and the empty line
BlockLines ==
    { <<"$", " ", "a">>, <<">", " ", " ", "b", " ">>, <<"a">>, <<"$", "a">>,
      Ellipsis, <<>> }

TokenizeInit ==
    /\ NoRun
    /\ operand \in [lines : SeqsUpTo(BlockLines, MaxBlock)]
    /\ result = <<>>

\* err := Tokenize(md, visitor) for a document of one code block
Tokenize ==
    /\ result = <<>>
    /\ result' = << [Interactions |-> TokenizeLines(operand.lines, <<>>),
                     err |-> "nil"] >>
    /\ UNCHANGED allButResult

TokenizeNext == Tokenize

TokenizeSpec == TokenizeInit /\ [][TokenizeNext]_vars

\* ---- parseCodeBlockInfoString
\* An info string is the sequence of its fields (the pieces between blanks);
\* a field is a sequence of tokens: "{", "}", "=", the token "shelldoc" that
\* stands for the whole namespace prefix, and one-character tokens.

\* the fields of "{tok1 tok2 ...}"
Braced(toks) ==
    [i \in 1..Len(toks) |->
        (IF i = 1 THEN <<"{">> ELSE <<>>) \o toks[i]
            \o (IF i = Len(toks) THEN <<"}">> ELSE <<>>)]

\* the tokens between the braces of such fields
Unbraced(fields) ==
    [i \in 1..Len(fields) |->
        SubSeq(fields[i], (IF i = 1 THEN 2 ELSE 1),
               (IF i = Len(fields) THEN Len(fields[i]) - 1 ELSE Len(fields[i])))]

\* the info string is a language followed by a brace-delimited suffix
HasAttributeSuffix(info) ==
    /\ Len(info) >= 2
    /\ info[2] # <<>>
    /\ Head(info[2]) = "{"
    /\ info[Len(info)] # <<>>
    /\ info[Len(info)][Len(info[Len(info)])] = "}"

\* the position of the first "=" of a token, 0 if it has none
RECURSIVE EqualsAt(_, _)
EqualsAt(tok, i) ==
    IF i > Len(tok) THEN 0
    ELSE IF tok[i] = "=" THEN i
    ELSE EqualsAt(tok, i + 1)

AttrKey(tok) ==
    IF EqualsAt(tok, 1) = 0 THEN tok ELSE SubSeq(tok, 1, EqualsAt(tok, 1) - 1)

AttrValue(tok) ==
    IF EqualsAt(tok, 1) = 0 THEN <<>>
    ELSE SubSeq(tok, EqualsAt(tok, 1) + 1, Len(tok))

\* the key is in the shelldoc namespace
HasNamespace(key) == key # <<>> /\ Head(key) = "shelldoc"

\* the attribute map after the tokens toks, attrs being the map before them
RECURSIVE ParseAttributes(_, _)
ParseAttributes(toks, attrs) ==
    IF toks = <<>> THEN attrs
    ELSE IF HasNamespace(AttrKey(Head(toks)))
    THEN ParseAttributes(Tail(toks),
             [k \in DOMAIN attrs \cup {AttrKey(Head(toks))} |->
                 IF k = AttrKey(Head(toks)) THEN AttrValue(Head(toks))
                 ELSE attrs[k]])
    ELSE ParseAttributes(Tail(toks), attrs)

\* parseCodeBlockInfoString: language and attributes of an info string with
\* a brace-delimited suffix; an empty language and no attribute without one
parseCodeBlockInfoString(info) ==
    IF HasAttributeSuffix(info)
    THEN [language |-> info[1],
          attributes |-> ParseAttributes(Unbraced(Tail(info)), <<>>)]
    ELSE [language |-> <<>>, attributes |-> <<>>]

\* the attribute tokens of the model: a key of the namespace with two
\* values, a bare key of the namespace, and two keys outside of it
AttrTokens ==
    { <<"shelldoc", "a", "=", "1">>, <<"shelldoc", "a", "=", "2">>,
      <<"shelldoc", "b">>, <<"o", "=", "1">>, <<".", "c">> }

\* the info strings of the model: "", "sh" and "sh {...}"
InfoStrings ==
    { <<>>, << <<"s", "h">> >> }
        \cup { << <<"s", "h">> >> \o Braced(toks) :
                   toks \in SeqsUpTo(AttrTokens, MaxAttrs) \ { <<>> } }

InfoInit ==
    /\ NoRun
    /\ operand \in [infostring : InfoStrings]
    /\ result = <<>>

\* lang, attrs := parseCodeBlockInfoString(infostring)
ParseInfoString ==
    /\ result = <<>>
    /\ result' = << parseCodeBlockInfoString(operand.infostring) >>
    /\ UNCHANGED allButResult

InfoNext == ParseInfoString

InfoSpec == InfoInit /\ [][InfoNext]_vars

\* ---- JUnitTestSuite: the registration of test cases
\* A suite is its list of test cases and its three counters; a test case is
\* [Error, Failure] as in the file run.

\* suite := &JUnitTestSuite{Name: ...}
NewSuite == [TestCases |-> <<>>, Tests |-> 0, Failures |-> 0, Errors |-> 0]

\* faulty variant of RegisterTestCase: the errors are not counted
RegisterTestCaseNoErrors(s, tc) ==
    [TestCases |-> Append(s.TestCases, tc),
     Tests |-> s.Tests + 1,
     Failures |-> IF tc.Failure THEN s.Failures + 1 ELSE s.Failures,
     Errors |-> s.Errors]

\* suite.RegisterTestCase(tc)
RegisterTestCase(s, tc) ==
    [TestCases |-> Append(s.TestCases, tc),
     Tests |-> s.Tests + 1,
     Failures |-> IF tc.Failure THEN s.Failures + 1 ELSE s.Failures,
     Errors |-> IF tc.Error # "nil" THEN s.Errors + 1 ELSE s.Errors]

TestCount(s) == s.Tests

FailureCount(s) == s.Failures

ErrorCount(s) == s.Errors

SuccessCount(s) == s.Tests - s.Failures - s.Errors

\* what ExecuteCommand can return to the loop: the errors of shell.go and
\* the outputs of the file run's commands
Errs == {"nil", "ErrTimeout", "ErrCancelled", "ErrExitCode"}

SuiteInit ==
    /\ NoRun
    /\ operand = <<>>
    /\ result = << NewSuite >>

\* performInteractions, from the return of performTestCase to
\* suite.RegisterTestCase(*testcase): the test case gets an error when the
\* execution returned one, a failure when the interaction has one
RegisterInteraction ==
    /\ result[1].Tests < MaxCases
    /\ \E err \in Errs, response \in Responses, output \in Responses :
         LET code == Execute([Response |-> response,
                              ResultCode |-> "NewInteraction"],
                             [output |-> output, rc |-> 0, err |-> err])
         IN  result' = << RegisterTestCase(result[1],
                              [Error |-> err, Failure |-> HasFailure(code)]) >>
    /\ UNCHANGED allButResult

SuiteNext == RegisterInteraction

SuiteSpec == SuiteInit /\ [][SuiteNext]_vars

\* ------------------------------------------------------------------ claims
\* The formulas below speak about the state right after ExecuteCommand has
\* returned (hist.via says through which case of the select), before the
\* loop of performInteractions goes on.

\* the call returned the value its goroutine sent after reading an end-marker
\* line with an integer on it
ReturnedScan == hist.via = "result" /\ hist.end = "marker"

\* C1 as stated: when the scan completes, the returned output is exactly the
\* sequence of lines the shell emitted between the begin-marker line and the
\* end-marker line of this command, in emission order, and no line read
\* before the begin marker appears in it.
C1_OutputIsFrame == ReturnedScan => ret.output = framed

\* C1, amended: the same, for sessions whose commands print no line that
\* reads like a marker (the uniqueness of the marker text that the
\* specification names as a precondition of the framing).
C1_OutputIsFrameUnlessCollision ==
    (ReturnedScan /\ ~collided) => ret.output = framed

\* the second command of a session printed two lines and they were returned,
\* while a line left behind by a background job was not
C1_Witness ==
    /\ ReturnedScan
    /\ ~collided
    /\ hist.k = 2
    /\ strays = 1
    /\ Len(ret.output) = 2
    /\ ret.output = framed

\* C2: when the end-marker line that was read carries the decimal integer N,
\* ExecuteCommand returns exit code N and a nil error, for every command of
\* a sequence on the same session.
C2_ExitCodeReturned ==
    \A N \in ExitCodes :
        (hist.via = "result" /\ hist.endArg = Itoa(N))
            => (ret.rc = N /\ ret.err = "nil")

\* the second command of a session failed with 12 and 12 was returned
C2_Witness ==
    /\ hist.via = "result"
    /\ hist.k = 2
    /\ hist.endArg = Itoa(12)
    /\ ret.rc = 12

\* C3: when the text after the end marker is not an integer, ExecuteCommand
\* returns a protocol error: a non-nil error, no output, exit code -1.
C3_ProtocolError ==
    (hist.via = "result" /\ hist.endArg = <<"x">>)
        => (ret.err # "nil" /\ ret.output = <<>> /\ ret.rc = -1)

\* the end-marker line came after a line of output, and the error was
\* returned without that output
C3_Witness ==
    /\ hist.via = "result"
    /\ hist.endArg = <<"x">>
    /\ framed = << <<"h">>, endMarker \o <<" ", "x">> >>
    /\ ret.err = "ErrExitCode"

\* C4 as stated: when the stream ends before the end-marker line of the
\* current command was read, ExecuteCommand returns an error, never a
\* successful result with an exit code.
C4_EndOfStreamIsError ==
    (hist.via = "result" /\ hist.end = "eof") => ret.err # "nil"

C6_CancelInFlightReturnsCancelled ==
    (hist.via # "none" /\ hist.cancelFirst) => ret.err = "ErrCancelled"

\* C7 as stated: when the cancellation signal is set before ExecuteCommand is
\* called, the call returns ErrCancelled, for every command and timeout.
C7_AlreadyCancelledReturnsCancelled ==
    (hist.via # "none" /\ hist.cancelledAtCall) => ret.err = "ErrCancelled"

\* C8: with timeout zero ExecuteCommand never returns ErrTimeout; no timer
\* runs, and the call returns only with the result of the scan or with the
\* cancellation.
C8_ZeroTimeoutNeverTimesOut ==
    timeout = 0 =>
        /\ timer = "off"
        /\ hist.via \in {"none", "result", "cancel"}
        /\ ret.err # "ErrTimeout"
        /\ \A i \in 1..Len(suite) : suite[i].Error # "ErrTimeout"

\* with timeout zero the caller waits while the command runs on and its
\* goroutine has nothing left to read
C8_Witness ==
    /\ timeout = 0
    /\ pc = "blocked"
    /\ timer = "off"
    /\ shellAlive
    /\ shellPos < Len(stdin)
    /\ stdout = <<>>
    /\ scan[index].beginFound

\* C9 as stated: when the scan completes before the timeout elapses and
\* before the cancellation fires, ExecuteCommand returns what the scan
\* collected, never ErrTimeout or ErrCancelled.
C9_ScanFirstReturnsResult ==
    (hist.via # "none" /\ hist.scanFirst)
        => (hist.via = "result" /\ ret.err \notin {"ErrTimeout", "ErrCancelled"})

\* the interaction i has been given to the shell: its framed command is on
\* the shell's input
Attempted(i) == \E n \in 1..Len(stdin) : stdin[n].k = i

\* C10: once an interaction of a file run ends in a timeout, the run of the
\* file stops: the interaction is recorded as an error, it is the last one
\* recorded, and no later interaction is executed against the session.
C10_TimeoutStopsRun ==
    \A i \in 1..Len(suite) :
        suite[i].Error = "ErrTimeout" =>
            /\ i = Len(suite)
            /\ pc \in {"exit", "wait", "done"}
            /\ interactions[i].ResultCode = "ResultExecutionError"
            /\ returnCode = returnError
            /\ \A j \in (i + 1)..Len(interactions) :
                   /\ interactions[j].ResultCode = "NewInteraction"
                   /\ ~Attempted(j)

\* the first of two interactions timed out and the run has ended without
\* the second
C10_Witness ==
    /\ Len(interactions) = 2
    /\ Len(suite) = 1
    /\ suite[1].Error = "ErrTimeout"
    /\ interactions[2].ResultCode = "NewInteraction"
    /\ pc = "done"

\* C11 as stated: after an interaction has ended in a timeout or in a
\* cancellation the session is killed; it is not shut down by the graceful
\* path, i.e. the line "exit" is never written to it.
C11_NoGracefulExitAfterAbort ==
    (\E i \in 1..Len(suite) : suite[i].Error \in {"ErrTimeout", "ErrCancelled"})
        => \A n \in 1..Len(stdin) : stdin[n].op # "exit"

\* C12 as stated: a protocol error marks the interaction as an execution
\* error and no later interaction of the file is executed.
C12_ProtocolErrorStopsRun ==
    \A i \in 1..Len(suite) :
        suite[i].Error = "ErrExitCode" =>
            /\ interactions[i].ResultCode = "ResultExecutionError"
            /\ \A j \in (i + 1)..Len(interactions) : ~Attempted(j)

\* C13: a mismatch is recorded as a failure and the run goes on with the
\* next interaction, unless FailureStops is set: then no interaction after
\* the first failing one is executed.
C13_MismatchPolicy ==
    \A i \in 1..Len(suite) :
        interactions[i].ResultCode = "ResultMismatch" =>
            /\ suite[i].Failure
            /\ returnCode # returnSuccess
            /\ ~failureStops => index > i
            /\ failureStops =>
                   /\ i = Len(suite)
                   /\ pc \in {"exit", "wait", "done"}
                   /\ \A j \in (i + 1)..Len(interactions) :
                          /\ interactions[j].ResultCode = "NewInteraction"
                          /\ ~Attempted(j)

\* without FailureStops the first interaction did not match and the second
\* one was executed and matched
C13_Witness ==
    /\ ~failureStops
    /\ Len(suite) = 2
    /\ interactions[1].ResultCode = "ResultMismatch"
    /\ interactions[2].ResultCode = "ResultMatch"
    /\ suite[1].Failure
    /\ ~suite[2].Failure

\* the loop of performInteractions has been left
LoopLeft == pc \in {"exit", "wait", "done"}

\* C14: the cancellation signal is checked before each interaction is
\* started: an interaction is started only from the head of the loop and
\* only when the signal is not set there.  Once the signal has been observed,
\* at the head of the loop or by a call that returns ErrCancelled, the loop
\* is left, and from then on no command is written to the session.
C14_CancelStopsDispatch ==
    [][ /\ (pc = "loop" /\ ctxDone) => (pc' \in {"loop", "exit"})
        /\ (pc' = "call" /\ pc # "call") => (pc = "loop" /\ ~ctxDone)
        /\ (Len(stdin') > Len(stdin) /\ stdin'[Len(stdin')].op = "cmd")
               => pc = "call"
        /\ (hist'.via = "cancel" /\ hist.via # "cancel") => pc' = "exit"
        /\ LoopLeft =>
               /\ LoopLeft'
               /\ \A n \in (Len(stdin) + 1)..Len(stdin') : stdin'[n].op = "exit"
      ]_vars

\* the signal was seen at the head of the loop after the first of two
\* interactions had succeeded, and the second one was not started
C14_Witness ==
    /\ ctxDone
    /\ pc = "wait"
    /\ Len(interactions) = 2
    /\ Len(suite) = 1
    /\ suite[1].Error = "nil"
    /\ ~suite[1].Failure
    /\ ~Attempted(2)

\* the goroutines that read shell.stdout
Scanning == { k \in Calls : scan[k].st = "run" }

\* C15: at most one execution is in flight against the session: never do two
\* goroutines, abandoned ones included, read its output stream at the same
\* time, and the interactions are given to the shell in document order, each
\* at most once.
C15_OneExecutionInFlight ==
    /\ Cardinality(Scanning) <= 1
    /\ \A k \in Scanning : k = index /\ pc \notin {"loop", "call"}
    /\ \A m \in 1..Len(stdin), n \in 1..Len(stdin) :
           (m < n /\ stdin[n].op # "exit") =>
               /\ stdin[m].op # "exit"
               /\ stdin[m].k <= stdin[n].k
               /\ stdin[m].k = stdin[n].k
                      => (n = m + 1 /\ stdin[m].op = "begin" /\ stdin[n].op = "cmd")

\* the goroutine of the first of two interactions was abandoned after a
\* timeout and still reads while the run waits for the shell to end
C15_Witness ==
    /\ Len(interactions) = 2
    /\ Len(suite) = 1
    /\ suite[1].Error = "ErrTimeout"
    /\ Scanning = {1}
    /\ pc = "wait"

\* the number of times the command of interaction i was written to the shell
Attempts(i) ==
    Cardinality({ n \in 1..Len(stdin) : stdin[n].k = i /\ stdin[n].op = "cmd" })

\* C16: the result of every interaction starts as not executed and changes at
\* most once, after the one attempt to execute it; no interaction is executed
\* twice and a recorded result is never overwritten.
C16_ResultSetOnce ==
    /\ \A i \in 1..Len(interactions) :
           interactions[i].ResultCode = "NewInteraction"
    /\ [][ \A i \in 1..Len(interactions) :
               /\ Attempts(i)' <= 1
               /\ interactions[i].ResultCode # "NewInteraction"
                      => interactions'[i] = interactions[i]
               /\ interactions'[i].ResultCode # interactions[i].ResultCode
                      => (Attempts(i) = 1 /\ i = index)
         ]_vars

\* both interactions of a file have their results, two different ones, and
\* each was executed once
C16_Witness ==
    /\ Len(interactions) = 2
    /\ interactions[1].ResultCode = "ResultMatch"
    /\ interactions[2].ResultCode = "ResultMismatch"
    /\ Attempts(1) = 1
    /\ Attempts(2) = 1
    /\ pc = "done"

\* the setup found no shell: none was named and $SHELL is not set, or the
\* path does not exist
NoShellFound ==
    /\ Len(hist.setup) >= 3
    /\ (~hist.setup[1] /\ ~hist.setup[2]) \/ ~hist.setup[3]

\* the setup could not start the shell
ShellNotStarted == Len(hist.setup) = 4 /\ ~hist.setup[4]

\* C17: when the shell cannot be detected or cannot be started, the file run
\* returns an error at once: no shell runs, no interaction is executed and
\* none changes its state.
C17_SetupErrorsAreFatal ==
    /\ (NoShellFound \/ ShellNotStarted) => pc = "failed"
    /\ pc = "failed" =>
           /\ NoShellFound \/ ShellNotStarted
           /\ ~shellAlive
           /\ stdin = <<>>
           /\ suite = <<>>
           /\ \A i \in 1..Len(interactions) :
                  interactions[i].ResultCode = "NewInteraction"

\* a shell was named whose path does not exist, and the run of a file with
\* two interactions has failed
C17_Witness ==
    /\ pc = "failed"
    /\ Len(hist.setup) = 3
    /\ hist.setup[1]
    /\ ~hist.setup[3]
    /\ Len(interactions) = 2

\* C18 as stated, the part about completion: once the setup has succeeded the
\* file run always completes, also after an interaction that ended in a
\* timeout: performInteractions returns the suite.
C18_RunCompletesAfterTimeout ==
    (\E i \in 1..Len(suite) : suite[i].Error = "ErrTimeout") ~> (pc = "done")

\* no registered test case carries an error or a failure
AllPassed ==
    \A i \in 1..Len(suite) : suite[i].Error = "nil" /\ ~suite[i].Failure

\* C19: the return code is returnSuccess exactly when no executed interaction
\* produced an execution error or a failure; otherwise it is returnFailure or
\* returnError, and it never goes back to success.
C19_ReturnCodeTellsFailure ==
    /\ [](/\ returnCode \in {returnSuccess, returnFailure, returnError}
          /\ returnCode = returnSuccess <=> AllPassed
          /\ returnSuccess = 0)
    /\ [][returnCode # returnSuccess => returnCode' # returnSuccess]_vars

\* a failure and then an execution error were registered in one run
C19_Witness ==
    /\ Len(suite) = 2
    /\ suite[1].Failure
    /\ suite[2].Error # "nil"
    /\ returnCode = returnError

\* the caller waits with timeout zero and no signal, its command has ended
\* and the shell is alive and idle, and nothing is left for the goroutine to
\* read: without a signal the call never returns
WaitsForNothing ==
    /\ pc = "blocked"
    /\ timeout = 0
    /\ ~ctxDone
    /\ shellAlive
    /\ shellPos = Len(stdin)
    /\ stdout = <<>>
    /\ scan[index].st = "run"

\* C20 as stated: the end marker is emitted whatever the command does, so a
\* call with timeout zero and no cancellation whose command has ended with
\* the shell alive is never left waiting for a line that does not come.
C20_EndMarkerAlwaysComes == ~WaitsForNothing

\* the matcher has been applied to expected and actual and returned b
Matched(expected, actual, b) ==
    /\ operand = [expected |-> expected, actual |-> actual]
    /\ result = <<b>>

\* some expected line is the ellipsis
HasEllipsis(expected) == \E i \in 1..Len(expected) : expected[i] = Ellipsis

\* the position of the first ellipsis
FirstEllipsis(expected) ==
    CHOOSE i \in 1..Len(expected) :
        /\ expected[i] = Ellipsis
        /\ \A j \in 1..(i - 1) : expected[j] # Ellipsis

\* C21: when the expected lines contain "..." (first at position i), the
\* matcher returns true exactly when the actual output has at least i - 1
\* lines and its first i - 1 lines equal the expected lines before i;
\* whatever the actual output holds from position i on is accepted.
C21_EllipsisTruncation ==
    (result # <<>> /\ HasEllipsis(operand.expected)) =>
        LET i == FirstEllipsis(operand.expected)
        IN  result[1] = (/\ Len(operand.actual) >= i - 1
                         /\ SubSeq(operand.actual, 1, i - 1)
                              = SubSeq(operand.expected, 1, i - 1))

\* the three cases of the ellipsis law have been evaluated: here the first
C21_Witness ==
    Matched(<< <<"X">>, Ellipsis >>, << <<"X">>, <<"Q">>, <<"Q">> >>, TRUE)

\* C22: without an ellipsis line the matcher returns true exactly when
\* expected and actual are the same sequence, the same length included; two
\* empty sequences match.
C22_ExactPolicy ==
    (result # <<>> /\ ~HasEllipsis(operand.expected)) =>
        result[1] = (operand.expected = operand.actual)

\* an actual output that only extends the expected lines has been refused
C22_Witness == Matched(<< <<"X">> >>, << <<"X">>, <<"Q">> >>, FALSE)

\* C23: an interaction without documented response lines whose call of
\* ExecuteCommand returned without error (the framing was intact) has
\* succeeded, whatever lines and whatever exit code the command produced.
C23_NoResponseAlwaysPasses ==
    \A i \in 1..Len(suite) :
        (interactions[i].Response = <<>> /\ suite[i].Error = "nil") =>
            /\ interactions[i].ResultCode = "ResultMatch"
            /\ ~suite[i].Failure

\* a command without documented response has printed lines and passed
C23_Witness ==
    /\ Len(suite) > 0
    /\ interactions[Len(suite)].Response = <<>>
    /\ interactions[Len(suite)].ResultCode = "ResultMatch"
    /\ ret.err = "nil"
    /\ ret.output # <<>>
    /\ ret.rc # 0

\* C26: in dry-run mode no shell is looked for or started, nothing is
\* written to a shell, no interaction is executed (each keeps the result
\* code it was extracted with), the suite has no test case and the return
\* code is the one the file run started with.
C26_DryRunExecutesNothing ==
    dryRun =>
        /\ pc \in {"detect", "done"}
        /\ hist.setup = <<>>
        /\ ~shellAlive
        /\ stdin = <<>>
        /\ \A i \in 1..Len(interactions) :
               interactions[i].ResultCode = "NewInteraction"
        /\ suite = <<>>
        /\ returnCode = returnSuccess

\* a dry run over a file with interactions has returned
C26_Witness ==
    /\ dryRun
    /\ pc = "done"
    /\ Len(interactions) = MaxInteractions

\* the positions of the lines that start with "$ " or "> "
PromptPositions(lines) ==
    { i \in 1..Len(lines) :
        /\ Len(lines[i]) >= 2
        /\ SubSeq(lines[i], 1, 2) \in { <<"$", " ">>, <<">", " ">> } }

\* the position of the j-th such line
NthPrompt(lines, j) ==
    CHOOSE i \in PromptPositions(lines) :
        Cardinality({ q \in PromptPositions(lines) : q < i }) = j - 1

\* the position of the last line before the (j+1)-th prompt line, or of the
\* last line of the block
LastResponse(lines, j) ==
    IF j = Cardinality(PromptPositions(lines)) THEN Len(lines)
    ELSE NthPrompt(lines, j + 1) - 1

\* t is s without the blanks at its two ends
IsTrimOf(t, s) ==
    \E a \in 1..(Len(s) + 1), b \in 0..Len(s) :
        /\ t = SubSeq(s, a, b)
        /\ \A i \in 1..(a - 1) : s[i] = " "
        /\ \A i \in (b + 1)..Len(s) : s[i] = " "
        /\ t # <<>> => (t[1] # " " /\ t[Len(t)] # " ")

\* C24: the interactions extracted from a code block are, in order, one per
\* line that starts with "$ " or "> "; the command of each is the trimmed
\* text after its prompt, its expected response the lines after it up to the
\* next prompt line or the end of the block, in order.  Lines before the
\* first prompt line belong to no interaction.
C24_BlockExtraction ==
    result # <<>> =>
        LET lines == operand.lines
            found == result[1].Interactions
        IN  /\ Len(found) = Cardinality(PromptPositions(lines))
            /\ \A j \in 1..Len(found) :
                   /\ IsTrimOf(found[j].Cmd,
                               SubSeq(lines[NthPrompt(lines, j)], 3,
                                      Len(lines[NthPrompt(lines, j)])))
                   /\ found[j].Response =
                        SubSeq(lines, NthPrompt(lines, j) + 1,
                               LastResponse(lines, j))

\* a block of a response line, a "> " prompt line with blanks around its
\* command and a response line has given one interaction
C24_Witness ==
    /\ operand = [lines |-> << <<"a">>, <<">", " ", " ", "b", " ">>, Ellipsis >>]
    /\ result = << [Interactions |->
                      << [Cmd |-> <<"b">>, Response |-> << Ellipsis >>,
                          ResultCode |-> "NewInteraction"] >>,
                    err |-> "nil"] >>

\* the keys of the shelldoc namespace among the tokens
NamespaceKeys(toks) ==
    { AttrKey(toks[i]) : i \in { n \in 1..Len(toks) : toks[n][1] = "shelldoc" } }

\* the last token with key k
LastWithKey(toks, k) ==
    toks[CHOOSE i \in 1..Len(toks) :
            /\ AttrKey(toks[i]) = k
            /\ \A n \in (i + 1)..Len(toks) : AttrKey(toks[n]) # k]

\* C25 as stated: the parsed language is the leading word of the info
\* string, and the parsed attributes are exactly the tokens between the
\* braces whose key is in the shelldoc namespace, each key with the value of
\* its last occurrence (empty for a bare key).
C25_InfoStringParsed ==
    result # <<>> =>
        LET info == operand.infostring
            toks == IF Len(info) >= 2 THEN Unbraced(Tail(info)) ELSE <<>>
        IN  /\ result[1].language = (IF info = <<>> THEN <<>> ELSE info[1])
            /\ DOMAIN result[1].attributes = NamespaceKeys(toks)
            /\ \A k \in NamespaceKeys(toks) :
                   result[1].attributes[k] = AttrValue(LastWithKey(toks, k))

\* C30: a code block without a line that starts with a prompt marker (no
\* line at all included) gives no interaction, and no error.
C30_NoPromptNoInteraction ==
    (result # <<>> /\ PromptPositions(operand.lines) = {}) =>
        result[1] = [Interactions |-> <<>>, err |-> "nil"]

\* a block of lines without prompt marker has been extracted
C30_Witness ==
    /\ operand = [lines |-> << <<"a">>, <<"$", "a">> >>]
    /\ result = << [Interactions |-> <<>>, err |-> "nil"] >>

\* the number of test cases of s that satisfy P
CountCases(s, P(_)) ==
    Cardinality({ i \in 1..Len(s.TestCases) : P(s.TestCases[i]) })

CarriesFailure(tc) == tc.Failure

CarriesError(tc) == tc.Error # "nil"

CarriesNeither(tc) == ~tc.Failure /\ tc.Error = "nil"

\* C27: after any sequence of registrations TestCount is the number of
\* registered test cases and the sum of SuccessCount, FailureCount and
\* ErrorCount; FailureCount and ErrorCount are the numbers of cases that
\* carry a failure resp. an error; and every test case the file run
\* registers is in exactly one of the three groups, so that SuccessCount is
\* the number of cases that carry neither.
C27_SuiteCounters ==
    LET s == result[1]
    IN  /\ TestCount(s) = Len(s.TestCases)
        /\ TestCount(s) = SuccessCount(s) + FailureCount(s) + ErrorCount(s)
        /\ FailureCount(s) = CountCases(s, CarriesFailure)
        /\ ErrorCount(s) = CountCases(s, CarriesError)
        /\ SuccessCount(s) = CountCases(s, CarriesNeither)
        /\ \A i \in 1..Len(s.TestCases) :
               ~(CarriesFailure(s.TestCases[i]) /\ CarriesError(s.TestCases[i]))

\* a success, a failure and an error have been registered
C27_Witness ==
    /\ TestCount(result[1]) = 3
    /\ SuccessCount(result[1]) = 1
    /\ FailureCount(result[1]) = 1
    /\ ErrorCount(result[1]) = 1

\* C28: what is written to the shell's standard input follows the iteration:
\* the k-th interaction's echo of the begin marker is the line 2k - 1, its
\* command with the echo of the end marker the line 2k, so all of it comes
\* before anything of interaction k + 1; and when something of interaction
\* k + 1 is there, every interaction before it has its result and its test
\* case.  The exit line, if any, is the last one.
C28_WritesInIterationOrder ==
    \A n \in 1..Len(stdin) :
        IF stdin[n].op = "exit" THEN n = Len(stdin)
        ELSE /\ stdin[n].op = (IF n % 2 = 1 THEN "begin" ELSE "cmd")
             /\ stdin[n].k = (n + 1) \div 2
             /\ Len(suite) >= stdin[n].k - 1
             /\ \A q \in 1..(stdin[n].k - 1) :
                    interactions[q].ResultCode # "NewInteraction"

\* the second interaction has been written after the first one returned
C28_Witness ==
    /\ Len(stdin) = 4
    /\ stdin[3] = [op |-> "begin", k |-> 2]
    /\ stdin[4] = [op |-> "cmd", k |-> 2]
    /\ Len(suite) = 1
    /\ pc = "select"

\* no call of ExecuteCommand of this session has returned an error, the shell
\* runs and has nothing left to read but the exit line
HealthySession ==
    /\ shellAlive
    /\ shellPos = Len(stdin) - 1
    /\ \A i \in 1..Len(suite) : suite[i].Error = "nil"

\* nothing of an earlier session is left
FreshSession ==
    /\ stdin = <<>>
    /\ shellPos = 0
    /\ ~shellAlive
    /\ stdout = <<>>
    /\ \A k \in Calls : scan[k] = IdleScan /\ resultCh[k] = <<>>
    /\ suite = <<>>

\* C29: when Exit has written the exit line to a healthy session, it
\* eventually returns, with the process ended and without error; and every
\* cycle, the first one and each one after it, starts with a fresh session.
C29_GracefulExit ==
    /\ (pc = "wait" /\ HealthySession)
           ~> (pc = "done" /\ ~shellAlive /\ hist.exit = "nil")
    /\ [](pc \in {"detect", "start"} => FreshSession)

\* the last of the cycles has run a command on its session, and its Exit
\* has returned without error
C29_Witness ==
    /\ counter = MaxCycles
    /\ pc = "done"
    /\ hist.exit = "nil"
    /\ ~shellAlive
    /\ Len(suite) = 1
    /\ suite[1].Error = "nil"

\* C31: whenever ExecuteCommand has returned an error (timeout, cancellation
\* or unparsable exit code), the output it returned is empty and the exit
\* code is -1, whatever the goroutine had collected by then.
C31_ErrorMeansNoOutput ==
    ret.err \notin {"none", "nil"} => (ret.output = <<>> /\ ret.rc = -1)

\* the goroutine had collected a line when it met an end-marker line without
\* a number, and the call returned the error
C31_Witness ==
    /\ ret.err = "ErrExitCode"
    /\ hist.via = "result"
    /\ Len(framed) >= 2
    /\ framed[1] = <<"h">>

\* the goroutine of call k still reads, and its call has returned without it
Abandoned(k) == scan[k].st = "run" /\ ~InFlight(k)

\* the next line of the pipe ends the loop of the goroutine of call k
EndMarkerNext(k) ==
    /\ scan[k].beginFound
    /\ stdout # <<>>
    /\ ~BeginRxMatch(Head(stdout))
    /\ Len(EndRxSubmatch(Head(stdout))) > 0

\* C32: a goroutine that still reads finds room in its resultCh, which never
\* holds more than the one result of that goroutine, so its send cannot
\* block; and an abandoned goroutine ends once the shell is gone (it reads
\* what is left in the pipe, then the end of the stream) or once an
\* end-marker line is the next line it reads.
C32_AbandonedScanEnds ==
    /\ [](\A k \in Calls :
              /\ Len(resultCh[k]) <= 1
              /\ scan[k].st = "run" => resultCh[k] = <<>>)
    /\ \A k \in Calls :
           (Abandoned(k) /\ (~shellAlive \/ EndMarkerNext(k)))
               ~> (scan[k].st = "done")

\* the call timed out, its goroutine has ended later, and its result lies in
\* resultCh with nobody to receive it
C32_Witness ==
    /\ Len(suite) = 1
    /\ suite[1].Error = "ErrTimeout"
    /\ scan[1].st = "done"
    /\ resultCh[1] # <<>>

\* the two lines of call k are in the shell's input stream
Written(k) ==
    /\ Len(stdin) >= 2 * k
    /\ stdin[2 * k - 1] = [op |-> "begin", k |-> k]
    /\ stdin[2 * k] = [op |-> "cmd", k |-> k]

\* C33: when ExecuteCommand comes to its select, and when it has returned,
\* whatever it returned, the echo of the begin marker and the command with
\* the echo of the end marker are in the shell's input stream; also when ctx
\* was done before the call and the call returned ErrCancelled.
C33_WrittenBeforeSelect ==
    /\ pc \in {"select", "blocked"} => Written(index)
    /\ ret.err # "none" => Written(hist.k)
    /\ timer = "armed" => Written(index)

\* ctx was done before the call, the call returned ErrCancelled, and the
\* command is in the input stream
C33_Witness ==
    /\ hist.cancelledAtCall
    /\ ret = CancelledResult
    /\ Written(hist.k)

\* no line of out matches beginRx or endRx
NoFraming(out) ==
    \A n \in 1..Len(out) :
        /\ ~BeginRxMatch(out[n])
        /\ Len(EndRxSubmatch(out[n])) = 0

\* C34: no line that ExecuteCommand returns, that its goroutine has collected
\* or that waits on resultCh matches the begin or the end marker pattern.  A
\* goroutine that reads a line equal to the begin marker goes on and collects
\* nothing, wherever the line occurs; one that has found the begin marker
\* and reads a line of the form "<end marker> <text>" ends there.
C34_NoFramingLineReturned ==
    /\ [](/\ NoFraming(ret.output)
          /\ \A k \in Calls :
                 /\ NoFraming(scan[k].output)
                 /\ \A n \in 1..Len(resultCh[k]) :
                        NoFraming(resultCh[k][n].output))
    /\ [][ \A k \in Calls :
               (scan[k].st = "run" /\ scan'[k] # scan[k] /\ stdout # <<>>) =>
                   /\ BeginRxMatch(Head(stdout)) =>
                          /\ scan'[k].st = "run"
                          /\ scan'[k].output = scan[k].output
                   /\ (/\ scan[k].beginFound
                       /\ ~BeginRxMatch(Head(stdout))
                       /\ Len(EndRxSubmatch(Head(stdout))) > 0)
                          => scan'[k].st = "done"
         ]_vars

\* the command printed a line equal to the begin marker and an ordinary line,
\* and the call returned the ordinary line alone
C34_Witness ==
    /\ hist.via = "result"
    /\ ret.err = "nil"
    /\ ret.output = << <<"h">> >>
    /\ \E n \in 1..Len(framed) : framed[n] = beginMarker
    /\ \E n \in 1..Len(framed) : framed[n] = <<"h">>

====
